---- MODULE Spec2Model ----
(***************************************************************************)
(* The Context/Storage subsystem of Prove-It: the content store with       *)
(* reference counts and sweep, the axiom/theorem ledgers                   *)
(* (Context._setSpecialStatements), the common-expression table            *)
(* (Context._setCommonExpressions) and the lookups that read them.         *)
(* context.py is modelled from its source.  The Storage class it imports   *)
(* (storage.py) is modelled from the specification's Content Store.        *)
(***************************************************************************)
EXTENDS Integers, Sequences, FiniteSets, TLC

\* Largest reference count the model lets an entry reach.
MaxRef == 2
\* Largest number of named slots (ledger slots and table lines) at a time
\* in the specification that reconciles both ledgers.
MaxSlots == 2

-----------------------------------------------------------------------------
(* Text: names, ids and files are sequences of one-character strings.      *)

WhiteSpace == {" ", "\n", "\t"}

NL == <<"\n">>

SP == <<" ">>

\* Names of axioms, theorems and common expressions (Python identifiers).
Names == {<<"a">>, <<"b">>}

Kinds == {"axiom", "theorem"}

-----------------------------------------------------------------------------
(* Expressions: a kind tag, core data, ordered sub-expressions, a style.   *)

Var(c, s) == [kind |-> "V", core |-> c, subs |-> <<>>, style |-> s]

Op(c, sub, s) == [kind |-> "O", core |-> c, subs |-> <<sub>>, style |-> s]

Styles == {0, 1}

Exprs == {Var("x", s) : s \in Styles} \cup {Op("f", Var("x", 1), 0)}

\* Structural equality: same kind and core, recursively equal sub-expressions,
\* styles ignored.
RECURSIVE StructEq(_, _)
StructEq(e1, e2) ==
    /\ e1.kind = e2.kind
    /\ e1.core = e2.core
    /\ Len(e1.subs) = Len(e2.subs)
    /\ \A i \in 1..Len(e1.subs) : StructEq(e1.subs[i], e2.subs[i])

RECURSIVE Flatten(_)
Flatten(ss) == IF ss = <<>> THEN <<>> ELSE Head(ss) \o Flatten(Tail(ss))

\* The content hash: the structural encoding (kind tag, core data, the
\* sub-expressions' hashes in order), with the style left out.
RECURSIVE HashWithStyle(_)
HashWithStyle(e) ==
    <<e.kind, e.core, ToString(e.style)>>
        \o (IF e.subs = <<>> THEN <<>>
            ELSE <<"(">> \o Flatten([i \in 1..Len(e.subs) |-> HashWithStyle(e.subs[i])])
                         \o <<")">>)

RECURSIVE Hash(_)
Hash(e) ==
    <<e.kind, e.core>>
        \o (IF e.subs = <<>> THEN <<>>
            ELSE <<"(">> \o Flatten([i \in 1..Len(e.subs) |-> Hash(e.subs[i])])
                         \o <<")">>)

Hashes == {Hash(e) : e \in Exprs}

-----------------------------------------------------------------------------
(* The Content Store: a map from persisted hash to reference count.        *)

Restrict(f, S) == [x \in S |-> f[x]]

\* storage._proveItStorageId(expr): the id of the stored expression.
StorageIdWithStyle(e) == HashWithStyle(e)

StorageId(e) == Hash(e)

\* store(expr): a first store persists the entry with count 0; a later one
\* finds the entry and leaves it alone.
StoreEntryCountOne(ents, e) ==
    IF StorageId(e) \in DOMAIN ents THEN ents ELSE ents @@ (StorageId(e) :> 1)

StoreEntry(ents, e) ==
    IF StorageId(e) \in DOMAIN ents THEN ents ELSE ents @@ (StorageId(e) :> 0)

\* storage._addReference(id); the callers modelled here add a reference only
\* to an id they have just stored.
AddReferenceTwice(ents, h) == [ents EXCEPT ![h] = @ + 2]

AddReference(ents, h) == [ents EXCEPT ![h] = @ + 1]

\* addReference(hash) as an operation of the store: NotFoundError, and no
\* change, when the hash has no persisted entry.
AddReferenceCreating(ents, h) ==
    IF h \in DOMAIN ents
    THEN [error |-> "none", ents |-> AddReference(ents, h)]
    ELSE [error |-> "none", ents |-> ents @@ (h :> 1)]

AddReferenceResult(ents, h) ==
    IF h \in DOMAIN ents
    THEN [error |-> "none", ents |-> AddReference(ents, h)]
    ELSE [error |-> "NotFoundError", ents |-> ents]

\* storage._removeReference(id, removingSpecialExpr): floor 0, never deletes.
RemoveReferenceNoFloor(ents, h, special) ==
    IF h \in DOMAIN ents THEN [ents EXCEPT ![h] = @ - 1] ELSE ents

RemoveReference(ents, h, special) ==
    IF h \in DOMAIN ents
    THEN [ents EXCEPT ![h] = IF @ > 0 THEN @ - 1 ELSE 0]
    ELSE ents

\* storage.clean(): drops every entry whose count is 0.
Garbage(ents) == {h \in DOMAIN ents : ents[h] = 0}

CleanBelowTwo(ents) == Restrict(ents, {h \in DOMAIN ents : ents[h] > 1})

CleanFirstOnly(ents) ==
    IF Garbage(ents) = {}
    THEN ents
    ELSE Restrict(ents, DOMAIN ents \ {CHOOSE h \in Garbage(ents) : TRUE})

Clean(ents) == Restrict(ents, DOMAIN ents \ Garbage(ents))

\* storage.clean() with the number it returns: the entries it removed.
CleanResult(ents) ==
    [ents |-> Clean(ents), removed |-> Cardinality(Garbage(ents))]

\* storage.numStoredExpressions()
NumStored(ents) == Cardinality(DOMAIN ents)

-----------------------------------------------------------------------------
(* Files of the __pv_it directory, read and written as text.               *)

NoFile == [exists |-> FALSE, text |-> <<>>]

File(text) == [exists |-> TRUE, text |-> text]

Range(s) == {s[i] : i \in 1..Len(s)}

\* Iterating a text file: the lines, each with its line break.
RECURSIVE SplitLines(_, _)
SplitLines(text, cur) ==
    IF text = <<>> THEN (IF cur = <<>> THEN <<>> ELSE <<cur>>)
    ELSE IF Head(text) = "\n"
         THEN <<Append(cur, "\n")>> \o SplitLines(Tail(text), <<>>)
         ELSE SplitLines(Tail(text), Append(cur, Head(text)))

ReadLines(text) == SplitLines(text, <<>>)

RECURSIVE StripLeft(_)
StripLeft(s) ==
    IF s # <<>> /\ Head(s) \in WhiteSpace THEN StripLeft(Tail(s)) ELSE s

RECURSIVE StripRight(_)
StripRight(s) ==
    IF s # <<>> /\ s[Len(s)] \in WhiteSpace
    THEN StripRight(SubSeq(s, 1, Len(s) - 1))
    ELSE s

\* str.strip()
Strip(s) == StripRight(StripLeft(s))

\* str.split(): the maximal runs of non-blank characters.
RECURSIVE SplitWords(_, _)
SplitWords(s, cur) ==
    IF s = <<>> THEN (IF cur = <<>> THEN <<>> ELSE <<cur>>)
    ELSE IF Head(s) \in WhiteSpace
         THEN (IF cur = <<>> THEN <<>> ELSE <<cur>>) \o SplitWords(Tail(s), <<>>)
         ELSE SplitWords(Tail(s), Append(cur, Head(s)))

Split(s) == SplitWords(s, <<>>)

-----------------------------------------------------------------------------
(* The statement ledger of one kind: Context._setSpecialStatements.        *)

\* StoredSpecialStmt.remove(keepPath): releases the reference the slot holds
\* and, unless the path is kept, deletes the slot.
StmtRemove(ents, slotsK, name, keepPath) ==
    [ents  |-> RemoveReference(ents, slotsK[name], TRUE),
     slots |-> IF keepPath THEN slotsK
               ELSE Restrict(slotsK, DOMAIN slotsK \ {name})]

\* The previous definitions: the id each per-name slot holds.
PreviousDefIdsNotRead(slotsK) == <<>>

PreviousDefIds(slotsK) == slotsK

\* The slots to remove: those whose name is not a key of the definitions.
ToRemove(slotsK, defs) == {name \in DOMAIN slotsK : name \notin DOMAIN defs}

\* The loop over the names: each name is written to the list file; a changed
\* or new one gets its slot written and a reference added.
RECURSIVE SetLoop(_, _, _, _, _)
SetLoop(st, names, defs, prev, i) ==
    IF i > Len(names) THEN st
    ELSE LET name  == names[i]
             expr  == defs[name]
             text1 == st.text \o name \o NL
             ents1 == StoreEntry(st.ents, expr)
             id    == StorageId(expr)
         IN  IF name \in DOMAIN prev /\ prev[name] = id
             THEN SetLoop([st EXCEPT !.text = text1, !.ents = ents1],
                          names, defs, prev, i + 1)
             ELSE LET isNew == name \notin DOMAIN prev
                      rem   == IF isNew
                               THEN [ents |-> ents1, slots |-> st.slots]
                               ELSE StmtRemove(ents1, st.slots, name, TRUE)
                  IN  SetLoop([ents     |-> AddReference(rem.ents, id),
                               slots    |-> (name :> id) @@ rem.slots,
                               text     |-> text1,
                               added    |-> IF isNew THEN st.added \cup {name}
                                            ELSE st.added,
                               modified |-> IF isNew THEN st.modified
                                            ELSE st.modified \cup {name}],
                              names, defs, prev, i + 1)

RECURSIVE RemoveAll(_, _, _)
RemoveAll(ents, slotsK, S) ==
    IF S = {} THEN [ents |-> ents, slots |-> slotsK]
    ELSE LET name == CHOOSE x \in S : TRUE
             r    == StmtRemove(ents, slotsK, name, FALSE)
         IN  RemoveAll(r.ents, r.slots, S \ {name})

\* What the call prints: the names added, modified and removed.
Report(added, modified, removed) ==
    [added |-> added, modified |-> modified, removed |-> removed]

NoReport == Report({}, {}, {})

NameRank(name) == IF name = <<"a">> THEN 1 ELSE 2

SetSpecialStatementsSorted(ents, slotsK, names, defs) ==
    LET prev     == PreviousDefIds(slotsK)
        toRemove == ToRemove(slotsK, defs)
        sorted   == SortSeq(names, LAMBDA m, n : NameRank(m) < NameRank(n))
        looped   == SetLoop([ents |-> ents, slots |-> slotsK, text |-> <<>>,
                             added |-> {}, modified |-> {}],
                            sorted, defs, prev, 1)
        removed  == RemoveAll(looped.ents, looped.slots, toRemove)
    IN  [ents   |-> removed.ents,
         slots  |-> removed.slots,
         file   |-> File(looped.text),
         report |-> Report(looped.added, looped.modified, toRemove)]

SetSpecialStatements(ents, slotsK, names, defs) ==
    LET prev     == PreviousDefIds(slotsK)
        toRemove == ToRemove(slotsK, defs)
        looped   == SetLoop([ents |-> ents, slots |-> slotsK, text |-> <<>>,
                             added |-> {}, modified |-> {}],
                            names, defs, prev, 1)
        removed  == RemoveAll(looped.ents, looped.slots, toRemove)
    IN  [ents   |-> removed.ents,
         slots  |-> removed.slots,
         file   |-> File(looped.text),
         report |-> Report(looped.added, looped.modified, toRemove)]

\* storage.makeExpression(id): the stored expression, when its entry exists.
MakeExpression(ents, id) ==
    IF id \in DOMAIN ents THEN [ok |-> TRUE, id |-> id]
    ELSE [ok |-> FALSE, err |-> "CorruptStoreError"]

\* Context._getSpecialStatementExpr(kind, name)
GetSpecialStatementExpr(ents, slotsK, name) ==
    IF name \in DOMAIN slotsK THEN MakeExpression(ents, slotsK[name])
    ELSE [ok |-> FALSE, err |-> "KeyError"]

\* Context._getSpecialStatementNames(kind): the stripped lines of the list.
GetSpecialStatementNames(file) ==
    IF ~file.exists THEN [ok |-> FALSE, err |-> "IOError"]
    ELSE LET lines == ReadLines(file.text)
         IN  [ok |-> TRUE, names |-> [i \in 1..Len(lines) |-> Strip(lines[i])]]

-----------------------------------------------------------------------------
(* The common-expression table: Context._setCommonExpressions.             *)

\* The name and id of each line of commons.pv_it.
CommonLines(file) ==
    IF ~file.exists THEN <<>>
    ELSE LET lines == ReadLines(file.text)
         IN  [i \in 1..Len(lines) |-> Split(lines[i])]

OldExprIds(file) ==
    LET lines == CommonLines(file) IN {lines[i][2] : i \in 1..Len(lines)}

RECURSIVE CommonLoop(_, _, _, _)
CommonLoop(st, names, defs, i) ==
    IF i > Len(names) THEN st
    ELSE LET name == names[i]
             expr == defs[name]
             id   == StorageId(expr)
             same == id \in st.old
         IN  CommonLoop([ents |-> StoreEntry(st.ents, expr),
                         old  |-> IF same THEN st.old \ {id} ELSE st.old,
                         new  |-> IF same THEN st.new ELSE st.new \cup {id},
                         ids  |-> (name :> id) @@ st.ids,
                         text |-> st.text \o name \o SP \o id \o NL],
                        names, defs, i + 1)

RECURSIVE RemoveReferences(_, _)
RemoveReferences(ents, S) ==
    IF S = {} THEN ents
    ELSE LET h == CHOOSE x \in S : TRUE
         IN  RemoveReferences(RemoveReference(ents, h, TRUE), S \ {h})

RECURSIVE AddReferences(_, _)
AddReferences(ents, S) ==
    IF S = {} THEN ents
    ELSE LET h == CHOOSE x \in S : TRUE
         IN  AddReferences(AddReference(ents, h), S \ {h})

SetCommonExpressions(ents, file, names, defs) ==
    LET looped == CommonLoop([ents |-> ents, old |-> OldExprIds(file), new |-> {},
                              ids |-> <<>>, text |-> <<>>],
                             names, defs, 1)
    IN  [ents |-> AddReferences(RemoveReferences(looped.ents, looped.old), looped.new),
         file |-> File(looped.text),
         ids  |-> looped.ids]

-----------------------------------------------------------------------------
(* The state of one context directory and the calls made on it.            *)

VARIABLES
    entries,      \* the Content Store: persisted hash -> reference count
    slots,        \* kind -> (name -> id): the per-name slots (<kind>s/<name>/expr.pv_it)
    listFile,     \* kind -> the list file (<kind>s.txt)
    commonsFile,  \* the table file commons.pv_it
    referencedCommons,  \* CommonExpressions.context_names_of_referenced_commons
    referencedRecord,   \* context name -> its persisted record of referenced contexts
    buildState,         \* context name -> the state of its build in this process
    commonExprIds,      \* _common_expr_ids of one long-lived Context object
    rootContextPaths,   \* Context._rootContextPaths: root name -> directory
    storages,           \* Context.storages: the paths that have a Storage
    call,               \* the _setSpecialStatements call in progress, if any
    cleanedDuringCall,  \* whether clean() ran while the latest call was in progress
    otherDir,           \* the __pv_it directory of a second context
    default,            \* Context.default
    lookup              \* the getCommonExpr calls in progress and the latest outcome

vars == <<entries, slots, listFile, commonsFile,
          referencedCommons, referencedRecord, buildState,
          commonExprIds, rootContextPaths, storages, call, cleanedDuringCall,
          otherDir, default, lookup>>

\* The table a Context object has read in, the registry of the process and
\* the call in progress.
cacheVars == <<commonExprIds>>

regVars == <<rootContextPaths, storages>>

runVars == <<call, cleanedDuringCall>>

\* The directory of the second context.
otherVars == <<otherDir>>

\* The default context of the process and the lookups in progress.
lookupVars == <<default, lookup>>

\* No getCommonExpr call is in progress and none has returned yet.
NoLookup == [frames |-> <<>>, last |-> "none"]

\* A context directory nothing was written to.
EmptyDir ==
    [entries |-> <<>>, slots |-> [k \in Kinds |-> <<>>],
     listFile |-> [k \in Kinds |-> NoFile], commonsFile |-> NoFile]

\* _common_expr_ids = None: the table was not read in by the object.
NoIds == [loaded |-> FALSE, ids |-> <<>>]

Ids(ids) == [loaded |-> TRUE, ids |-> ids]

\* No _setSpecialStatements call is in progress.
NoCall == [pc |-> "idle"]

\* The files and the store of the context directory.
dirVars == <<entries, slots, listFile, commonsFile>>

\* The process-wide set of referenced contexts, the persisted records and the
\* build states.
depVars == <<referencedCommons, referencedRecord, buildState>>

\* The contexts of the workspace, by name.
ContextNames == {"A", "B", "C"}

\* A context whose common-expression notebook was never committed has no
\* record of referenced contexts.
NoRecord == [exists |-> FALSE, names |-> {}]

Record(names) == [exists |-> TRUE, names |-> names]

\* The argument values of the calls: ordered name lists without repetition
\* and definitions that define at least the listed names.
NameSeqs ==
    {ns \in UNION {[1..n -> Names] : n \in 0..Cardinality(Names)} :
        \A i, j \in 1..Len(ns) : i # j => ns[i] # ns[j]}

Definitions == UNION {[S -> Exprs] : S \in SUBSET Names}

NumSlots(sl, cf) ==
    Cardinality(DOMAIN sl["axiom"]) + Cardinality(DOMAIN sl["theorem"])
        + Len(CommonLines(cf))

WithinBounds(ents) == \A h \in DOMAIN ents : ents[h] <= MaxRef

Init ==
    /\ entries = <<>>
    /\ slots = [k \in Kinds |-> <<>>]
    /\ listFile = [k \in Kinds |-> NoFile]
    /\ commonsFile = NoFile
    /\ referencedCommons = {}
    /\ referencedRecord = [c \in ContextNames |-> NoRecord]
    /\ buildState = [c \in ContextNames |-> "Idle"]
    /\ commonExprIds = NoIds
    /\ rootContextPaths = <<>>
    /\ storages = {}
    /\ call = NoCall
    /\ cleanedDuringCall = FALSE
    /\ otherDir = EmptyDir
    /\ default = "None"
    /\ lookup = NoLookup

\* store(expr)
Store(e) ==
    /\ entries' = StoreEntry(entries, e)
    /\ UNCHANGED <<slots, listFile, commonsFile>>
    /\ UNCHANGED depVars
    /\ UNCHANGED <<cacheVars, regVars, lookupVars, otherVars, runVars>>

\* Context._setAxioms / Context._setTheorems, for a call that runs to
\* completion: every listed name is a key of the definitions (definitions[name]
\* raises KeyError otherwise).
Reconcile(kind, names, defs) ==
    LET r == SetSpecialStatements(entries, slots[kind], names, defs)
    IN  /\ Range(names) \subseteq DOMAIN defs
        /\ WithinBounds(r.ents)
        /\ entries' = r.ents
        /\ slots' = [slots EXCEPT ![kind] = r.slots]
        /\ listFile' = [listFile EXCEPT ![kind] = r.file]
        /\ UNCHANGED commonsFile
        /\ UNCHANGED depVars
        /\ UNCHANGED <<cacheVars, regVars, lookupVars, otherVars, runVars>>

\* Context._setCommonExpressions
ReconcileCommons(names, defs) ==
    LET r == SetCommonExpressions(entries, commonsFile, names, defs)
    IN  /\ Range(names) \subseteq DOMAIN defs
        /\ WithinBounds(r.ents)
        /\ entries' = r.ents
        /\ commonsFile' = r.file
        /\ UNCHANGED <<slots, listFile>>
        /\ UNCHANGED depVars
        /\ UNCHANGED <<cacheVars, regVars, lookupVars, otherVars, runVars>>

\* Context.clean()
Sweep ==
    /\ entries' = Clean(entries)
    /\ UNCHANGED <<slots, listFile, commonsFile>>
    /\ UNCHANGED depVars
    /\ UNCHANGED <<cacheVars, regVars, lookupVars, otherVars, runVars>>

\* The calls of one authoring session on the context: stores, reconciles of
\* the axiom ledger and of the common-expression table, sweeps.
Next ==
    \/ \E e \in Exprs : Store(e)
    \/ \E names \in NameSeqs, defs \in Definitions : Reconcile("axiom", names, defs)
    \/ \E names \in NameSeqs, defs \in Definitions : ReconcileCommons(names, defs)
    \/ Sweep

Spec == Init /\ [][Next]_vars

\* The same with the theorem ledger reconciled too, for at most MaxSlots
\* named slots at a time.
NextKinds ==
    \/ \E e \in Exprs : Store(e)
    \/ \E kind \in Kinds, names \in NameSeqs, defs \in Definitions :
           /\ Reconcile(kind, names, defs)
           /\ NumSlots(slots', commonsFile') <= MaxSlots
    \/ \E names \in NameSeqs, defs \in Definitions :
           /\ ReconcileCommons(names, defs)
           /\ NumSlots(slots', commonsFile') <= MaxSlots
    \/ Sweep

SpecKinds == Init /\ [][NextKinds]_vars

-----------------------------------------------------------------------------
(* Properties.                                                             *)

\* The arguments of a reconcile that runs to completion.
ValidArgs(names, defs) == Range(names) \subseteq DOMAIN defs

\* names(kind), with an absent list file read as no names.
NamesOf(file) ==
    LET r == GetSpecialStatementNames(file) IN IF r.ok THEN r.names ELSE <<>>

\* The number of named slots (ledger slots of every kind, table lines) that
\* hold the id h.
LedgerNaming(sl, h) ==
    Cardinality({n \in DOMAIN sl["axiom"] : sl["axiom"][n] = h})
        + Cardinality({n \in DOMAIN sl["theorem"] : sl["theorem"][n] = h})

CommonNaming(cf, h) ==
    LET lines == CommonLines(cf)
    IN  Cardinality({i \in 1..Len(lines) : lines[i][2] = h})

SlotsNaming(sl, cf, h) == LedgerNaming(sl, h) + CommonNaming(cf, h)

\* C1: after any sequence of completed store, reconcile and sweep calls, the
\* reference count of every persisted hash equals the number of named slots
\* (axiom, theorem and common-table entries) that hold it.
RefCountEqualsSlots ==
    \A h \in DOMAIN entries : entries[h] = SlotsNaming(slots, commonsFile, h)

\* C2: a ledger reconcile repeated with identical arguments is a no-op: the
\* second call reports nothing added, modified or removed and leaves the
\* name list, every slot and every reference count as the first left them.
LedgerIdempotent ==
    \A kind \in Kinds, names \in NameSeqs, defs \in Definitions :
        ValidArgs(names, defs) =>
            LET r1 == SetSpecialStatements(entries, slots[kind], names, defs)
                r2 == SetSpecialStatements(r1.ents, r1.slots, names, defs)
            IN  /\ r2.report = NoReport
                /\ r2.file = r1.file
                /\ r2.slots = r1.slots
                /\ r2.ents = r1.ents

\* A state a reconcile of two names has produced and on which the repeated
\* call is about to run.
LedgerIdempotentWitness ==
    \E names \in NameSeqs, defs \in Definitions :
        /\ Len(names) = 2
        /\ DOMAIN defs = Range(names)
        /\ listFile["axiom"] = File(names[1] \o NL \o names[2] \o NL)
        /\ slots["axiom"] = [n \in Range(names) |-> StorageId(defs[n])]
        /\ \A n \in Range(names) : entries[slots["axiom"][n]] >= 1

\* C3: an axiom name holds H1 and no other slot names H1; the ledger is
\* reconciled with that name absent (every other name as before, the store
\* holding no other unreferenced entry) and swept: count() is one less and
\* get('axiom', name) fails with the not-found error.
RemovalFreesStorage ==
    \A name \in DOMAIN slots["axiom"], names \in NameSeqs, defs \in Definitions :
        LET h1    == slots["axiom"][name]
            r     == SetSpecialStatements(entries, slots["axiom"], names, defs)
            swept == Clean(r.ents)
            got   == GetSpecialStatementExpr(swept, r.slots, name)
        IN  ( /\ ValidArgs(names, defs)
              /\ name \notin Range(names)
              /\ name \notin DOMAIN defs
              /\ SlotsNaming(slots, commonsFile, h1) = 1
              /\ Garbage(entries) = {}
              /\ r.report = Report({}, {}, {name}) )
            => /\ NumStored(swept) = NumStored(entries) - 1
               /\ ~got.ok
               /\ got.err = "KeyError"

\* C4: an axiom name holds H1 and no other slot names H1; the ledger is
\* reconciled with the name defined by an expression of hash H2 # H1 (no
\* slot naming H1 afterwards) and swept: H1's entry is gone, H2's entry is
\* persisted with a reference, and get('axiom', name) returns H2.
ModificationReplacesCleanly ==
    \A name \in DOMAIN slots["axiom"], names \in NameSeqs, defs \in Definitions :
        ( /\ ValidArgs(names, defs)
          /\ name \in Range(names)
          /\ StorageId(defs[name]) # slots["axiom"][name]
          /\ SlotsNaming(slots, commonsFile, slots["axiom"][name]) = 1 )
        => LET h1    == slots["axiom"][name]
               h2    == StorageId(defs[name])
               r     == SetSpecialStatements(entries, slots["axiom"], names, defs)
               swept == Clean(r.ents)
           IN  SlotsNaming([slots EXCEPT !["axiom"] = r.slots], commonsFile, h1) = 0
               => /\ h1 \notin DOMAIN swept
                  /\ h2 \in DOMAIN swept
                  /\ swept[h2] >= 1
                  /\ GetSpecialStatementExpr(swept, r.slots, name)
                         = [ok |-> TRUE, id |-> h2]

\* C5: after reconcile(kind, N, D) the names read back from the ledger are
\* exactly N, in the caller's order.
OrderPreserved ==
    \A kind \in Kinds, names \in NameSeqs, defs \in Definitions :
        ValidArgs(names, defs) =>
            LET r == SetSpecialStatements(entries, slots[kind], names, defs)
            IN  GetSpecialStatementNames(r.file) = [ok |-> TRUE, names |-> names]

\* A theorem ledger reconciled with <<b, a>>, an order that is not sorted,
\* which reads back in that order.
OrderPreservedWitness ==
    /\ listFile["theorem"].exists
    /\ NamesOf(listFile["theorem"]) = << <<"b">>, <<"a">> >>
    /\ DOMAIN slots["theorem"] = {<<"a">>, <<"b">>}

\* C6: after completed reconciles whose names are all keys of the
\* definitions, the names that have a per-name slot are exactly the names of
\* the persisted name list.
LedgerConsistent ==
    \A kind \in Kinds :
        listFile[kind].exists =>
            DOMAIN slots[kind] = Range(NamesOf(listFile[kind]))

\* C7: get(kind, name) returns a hash iff name is in names(kind), and fails
\* with the not-found error for every other name.
GetIffListed ==
    \A kind \in Kinds, name \in Names :
        LET got == GetSpecialStatementExpr(entries, slots[kind], name)
        IN  IF name \in Range(NamesOf(listFile[kind]))
            THEN got.ok
            ELSE ~got.ok /\ got.err = "KeyError"

\* C8: reconcile reports a name added iff it had no slot and is now listed,
\* modified iff it had a slot with another hash and is now listed, removed
\* iff it had a slot and is now not listed; the three sets are disjoint.
ClassifiedExactlyOnce ==
    \A kind \in Kinds, names \in NameSeqs, defs \in Definitions :
        ValidArgs(names, defs) =>
            LET prev == slots[kind]
                rep  == SetSpecialStatements(entries, prev, names, defs).report
            IN  /\ \A n \in Names :
                    /\ n \in rep.added <=>
                           (n \notin DOMAIN prev /\ n \in Range(names))
                    /\ n \in rep.modified <=>
                           (/\ n \in DOMAIN prev
                            /\ n \in Range(names)
                            /\ prev[n] # StorageId(defs[n]))
                    /\ n \in rep.removed <=>
                           (n \in DOMAIN prev /\ n \notin Range(names))
                /\ rep.added \cap rep.modified = {}
                /\ rep.added \cap rep.removed = {}
                /\ rep.modified \cap rep.removed = {}

\* The expressions the determinism of the hash is checked on: variables and
\* one-argument operations in every style.
VarExprs == {Var(c, s) : c \in {"x", "y"}, s \in Styles}

AllExprs == VarExprs \cup {Op("f", v, s) : v \in VarExprs, s \in Styles}

\* C9: structurally equal expressions get the same id from store, in every
\* state of the store, and the second store finds the entry of the first.
StoreDeterministic ==
    \A e1 \in AllExprs, e2 \in AllExprs :
        StructEq(e1, e2) =>
            /\ StorageId(e1) = StorageId(e2)
            /\ StoreEntry(StoreEntry(entries, e1), e2) = StoreEntry(entries, e1)

\* An entry is persisted that expressions of two different styles share.
StoreDeterministicWitness ==
    \E e1 \in Exprs, e2 \in Exprs :
        /\ e1 # e2
        /\ StructEq(e1, e2)
        /\ StorageId(e1) \in DOMAIN entries

\* C10: storing an expression whose hash has an entry changes neither
\* count() nor any reference count; a first store adds one entry, with
\* reference count 0, and changes no other entry.
StoreDedup ==
    \A e \in Exprs :
        LET h      == StorageId(e)
            stored == StoreEntry(entries, e)
        IN  IF h \in DOMAIN entries
            THEN stored = entries
            ELSE /\ DOMAIN stored = DOMAIN entries \cup {h}
                 /\ NumStored(stored) = NumStored(entries) + 1
                 /\ stored[h] = 0
                 /\ \A g \in DOMAIN entries : stored[g] = entries[g]

\* The store holds a referenced entry and a stored, unreferenced one, and a
\* third expression has no entry yet.
StoreDedupWitness ==
    /\ \E h \in DOMAIN entries : entries[h] = 0
    /\ \E h \in DOMAIN entries : entries[h] >= 1
    /\ \E e \in AllExprs : StorageId(e) \notin DOMAIN entries

-----------------------------------------------------------------------------
(* The Content Store driven directly: stores, added and removed references *)
(* and sweeps, on the entries of every expression of AllExprs.             *)

AllHashes == {StorageId(e) : e \in AllExprs}

\* addReference(hash): fails, and changes nothing, without a persisted entry.
AddRef(h) ==
    LET r == AddReferenceResult(entries, h)
    IN  /\ WithinBounds(r.ents)
        /\ entries' = r.ents
        /\ UNCHANGED <<slots, listFile, commonsFile>>
        /\ UNCHANGED depVars
        /\ UNCHANGED <<cacheVars, regVars, lookupVars, otherVars, runVars>>

\* removeReference(hash, removingSpecialExpr)
RemoveRef(h, special) ==
    /\ entries' = RemoveReference(entries, h, special)
    /\ UNCHANGED <<slots, listFile, commonsFile>>
    /\ UNCHANGED depVars
    /\ UNCHANGED <<cacheVars, regVars, lookupVars, otherVars, runVars>>

NextRefs ==
    \/ \E e \in AllExprs : Store(e)
    \/ \E h \in AllHashes : AddRef(h)
    \/ \E h \in AllHashes, special \in BOOLEAN : RemoveRef(h, special)
    \/ Sweep

SpecRefs == Init /\ [][NextRefs]_vars

\* C11: reference symmetry: for every persisted hash, whatever its count,
\* addReference followed by removeReference, with either value of the flag,
\* restores its count and leaves every other entry as it was.
ReferenceSymmetry ==
    \A h \in DOMAIN entries, special \in BOOLEAN :
        LET added   == AddReferenceResult(entries, h)
            removed == RemoveReference(added.ents, h, special)
        IN  /\ added.error = "none"
            /\ added.ents[h] = entries[h] + 1
            /\ removed[h] = entries[h]
            /\ DOMAIN removed = DOMAIN entries
            /\ \A g \in DOMAIN entries \ {h} : removed[g] = entries[g]

\* A hash was given a reference and another one is persisted without any.
ReferenceSymmetryWitness ==
    \E h \in DOMAIN entries, g \in DOMAIN entries :
        /\ h # g
        /\ entries[h] >= 1
        /\ entries[g] = 0

\* C12: every reference count is at least 0 in every reachable state:
\* removeReference takes 1 from a positive count and leaves a count of 0 at
\* 0, and it never deletes an entry, so count() is unchanged by it.
RefCountNonNegative ==
    /\ \A h \in DOMAIN entries : entries[h] >= 0
    /\ \A h \in DOMAIN entries, special \in BOOLEAN :
           LET removed == RemoveReference(entries, h, special)
           IN  /\ removed[h] = IF entries[h] > 0 THEN entries[h] - 1 ELSE 0
               /\ removed[h] >= 0
               /\ DOMAIN removed = DOMAIN entries
               /\ NumStored(removed) = NumStored(entries)

\* One entry is at the floor and another has two references to lose.
RefCountNonNegativeWitness ==
    \E h \in DOMAIN entries, g \in DOMAIN entries :
        /\ entries[h] = 0
        /\ entries[g] >= 2

\* C13: addReference on a hash without a persisted entry fails with
\* NotFoundError and changes nothing: no entry appears, no count moves.
AddReferenceNotFound ==
    \A h \in AllHashes \ DOMAIN entries :
        LET r == AddReferenceResult(entries, h)
        IN  /\ r.error = "NotFoundError"
            /\ r.ents = entries
            /\ NumStored(r.ents) = NumStored(entries)

\* Some hashes are persisted, one of them referenced, and another hash has
\* no entry to add a reference to.
AddReferenceNotFoundWitness ==
    /\ \E h \in DOMAIN entries : entries[h] >= 1
    /\ \E h \in AllHashes : h \notin DOMAIN entries
    /\ NumStored(entries) >= 2

\* C14: sweep removes exactly the entries whose count is 0: every entry with
\* a count of 1 or more stays, with its count; the number returned is the
\* number of entries removed, and count() goes down by exactly that number.
SweepExact ==
    LET r == CleanResult(entries)
    IN  /\ DOMAIN r.ents = {h \in DOMAIN entries : entries[h] >= 1}
        /\ \A h \in DOMAIN r.ents : r.ents[h] = entries[h]
        /\ r.removed = Cardinality(DOMAIN entries \ DOMAIN r.ents)
        /\ NumStored(r.ents) = NumStored(entries) - r.removed

\* The sweep meets an unreferenced entry, an entry referenced once and an
\* entry referenced more than once.
SweepExactWitness ==
    \E h0 \in DOMAIN entries, h1 \in DOMAIN entries, h2 \in DOMAIN entries :
        /\ entries[h0] = 0
        /\ entries[h1] = 1
        /\ entries[h2] >= 2

\* C15: sweep is idempotent: a second sweep right after a sweep removes no
\* entry, returns 0 and leaves count() and every entry as they were.
SweepIdempotent ==
    LET first  == CleanResult(entries)
        second == CleanResult(first.ents)
    IN  /\ second.removed = 0
        /\ second.ents = first.ents
        /\ NumStored(second.ents) = NumStored(first.ents)

\* The first sweep has several entries to remove and several to keep.
SweepIdempotentWitness ==
    /\ Cardinality(Garbage(entries)) >= 2
    /\ NumStored(Clean(entries)) >= 2

-----------------------------------------------------------------------------
(* The mutual dependency tracker: the contexts whose common expressions a  *)
(* context's common-expression notebook referenced, recorded per context   *)
(* and checked for two-way references.                                     *)

\* CommonExpressions.__init__(filename): the name of the context of the
\* _common_ module is added to the one set of the class, whichever notebook
\* is running and whatever the state of its build.
CommonExpressionsInit(refs, name) == refs \cup {name}

\* storage.recordReferencedContexts(names): the names replace the record.
StorageRecordReferencedContexts(rec, c, names) ==
    [rec EXCEPT ![c] = Record(names)]

\* storage.referencedContexts(): the persisted record.
ReferencedContexts(c) == referencedRecord[c]

\* storage.mutualReferencedContexts(names): a name among the given ones
\* whose record holds this context's name, None without one.  The names are
\* a set, so with several such names any of them may be the one returned.
StorageMutualReferencedContexts(rec, c, names) ==
    LET found == {o \in names : c \in rec[o].names}
    IN  IF found = {} THEN {"None"} ELSE found

\* Context.mutualReferencedContexts(): the names given to the storage are
\* those of the set of the class, not those of the context's record.
MutualReferencedContexts(c) ==
    StorageMutualReferencedContexts(referencedRecord, c, referencedCommons)

\* beginBuild(context): the set of referenced contexts is emptied.
BeginBuild(c) ==
    /\ buildState[c] = "Idle"
    /\ referencedCommons' = {}
    /\ buildState' = [buildState EXCEPT ![c] = "Building"]
    /\ UNCHANGED referencedRecord
    /\ UNCHANGED dirVars
    /\ UNCHANGED <<cacheVars, regVars, lookupVars, otherVars, runVars>>

\* recordReference(context, otherContextName): a CommonExpressions object is
\* created for the _common_ module of the other context.  Nothing in it
\* depends on the context whose notebook is running.
RecordReference(c, other) ==
    /\ referencedCommons' = CommonExpressionsInit(referencedCommons, other)
    /\ UNCHANGED <<referencedRecord, buildState>>
    /\ UNCHANGED dirVars
    /\ UNCHANGED <<cacheVars, regVars, lookupVars, otherVars, runVars>>

\* commitBuild(context): Context.recordReferencedContexts(), at the end of
\* the context's common-expression notebook.
CommitBuild(c) ==
    /\ buildState[c] = "Building"
    /\ referencedRecord' =
           StorageRecordReferencedContexts(referencedRecord, c, referencedCommons)
    /\ buildState' = [buildState EXCEPT ![c] = "Committed"]
    /\ UNCHANGED referencedCommons
    /\ UNCHANGED dirVars
    /\ UNCHANGED <<cacheVars, regVars, lookupVars, otherVars, runVars>>

\* A new process: the class is created again, with an empty set, and no
\* build has begun; the records are on disk and stay.
NewProcess ==
    /\ referencedCommons' = {}
    /\ buildState' = [c \in ContextNames |-> "Idle"]
    /\ UNCHANGED referencedRecord
    /\ UNCHANGED dirVars
    /\ UNCHANGED <<cacheVars, regVars, lookupVars, otherVars, runVars>>

NextDeps ==
    \/ \E c \in ContextNames : BeginBuild(c)
    \/ \E c \in ContextNames, other \in ContextNames : RecordReference(c, other)
    \/ \E c \in ContextNames : CommitBuild(c)
    \/ NewProcess

SpecDeps == Init /\ [][NextDeps]_vars

\* The contexts x and y have committed records that name each other.
Mutual(x, y) ==
    /\ y \in ReferencedContexts(x).names
    /\ x \in ReferencedContexts(y).names

\* C16: cycle detection: when the committed records of A and B name each
\* other (and no other pair does), checkMutual(A) returns B and checkMutual(B)
\* returns A; when A's record names B, B's does not name A and no two
\* contexts name each other, checkMutual(A) returns None.
CycleDetected ==
    \A a \in ContextNames : \A b \in ContextNames \ {a} :
        /\ ( /\ buildState[a] = "Committed"
             /\ buildState[b] = "Committed"
             /\ Mutual(a, b)
             /\ \A x \in ContextNames, y \in ContextNames :
                    Mutual(x, y) => {x, y} = {a, b} )
           => /\ MutualReferencedContexts(a) = {b}
              /\ MutualReferencedContexts(b) = {a}
        /\ ( /\ buildState[a] = "Committed"
             /\ b \in ReferencedContexts(a).names
             /\ \A x \in ContextNames, y \in ContextNames : ~Mutual(x, y) )
           => MutualReferencedContexts(a) = {"None"}

\* C17: only direct two-way references are detected: when A's record names
\* B, B's names C and C's names A, and no two contexts name each other (nor
\* does a context name itself), checkMutual returns None for A, B and C.
LongCycleUndetected ==
    \A a \in ContextNames : \A b \in ContextNames \ {a} :
        \A c \in ContextNames \ {a, b} :
            ( /\ \A x \in {a, b, c} : buildState[x] = "Committed"
              /\ b \in ReferencedContexts(a).names
              /\ c \in ReferencedContexts(b).names
              /\ a \in ReferencedContexts(c).names
              /\ \A x \in ContextNames, y \in ContextNames : ~Mutual(x, y) )
            => \A x \in {a, b, c} : MutualReferencedContexts(x) = {"None"}

\* The set that accumulates the names recorded for the build of c: the code
\* has one set for the whole process.
InProgress(c) == referencedCommons

\* C18: commitBuild makes the context's record exactly the set of the names
\* recorded for that context since its latest beginBuild: beginBuild starts
\* from the empty set, each recordReference for the context adds its name
\* (a set: duplicates collapse), commitBuild replaces the record by that set,
\* and while the context is building, neither the beginBuild of a different
\* context nor a name recorded for the build of a different context changes
\* the context's set.
CommitRecordsOwnBuild ==
    [][\A c \in ContextNames :
          /\ BeginBuild(c) => InProgress(c)' = {}
          /\ \A other \in ContextNames :
                 (buildState[c] = "Building" /\ RecordReference(c, other))
                     => InProgress(c)' = InProgress(c) \cup {other}
          /\ CommitBuild(c) => ReferencedContexts(c)' = Record(InProgress(c))
          /\ \A d \in ContextNames \ {c} :
                 ( /\ buildState[c] = "Building"
                   /\ \/ BeginBuild(d)
                      \/ /\ buildState[d] = "Building"
                         /\ \E other \in ContextNames :
                                RecordReference(d, other) )
                 => InProgress(c)' = InProgress(c)]_vars

\* C19: the build state of a context only moves from Idle to Building and
\* from Building to Committed within a process, and a recordReference made
\* while no context is in Building is not accepted: it changes neither the
\* in-progress set nor any persisted record.
RecordOnlyWhileBuilding ==
    [][/\ \A c \in ContextNames :
             buildState'[c] # buildState[c] =>
                 \/ NewProcess
                 \/ <<buildState[c], buildState'[c]>> \in
                        {<<"Idle", "Building">>, <<"Building", "Committed">>}
       /\ ( /\ \A c \in ContextNames : buildState[c] # "Building"
            /\ \E c \in ContextNames, other \in ContextNames :
                   RecordReference(c, other) )
          => UNCHANGED <<referencedCommons, referencedRecord>>]_vars

-----------------------------------------------------------------------------
(* The common-expression table reconciled twice.                           *)

\* C20: reconciling the common-expression table twice with the same names
\* and definitions leaves the table and every reference count after the
\* second call as they were after the first, for all inputs, two names
\* defined by structurally equal expressions included.
CommonsIdempotent ==
    \A names \in NameSeqs, defs \in Definitions :
        ValidArgs(names, defs) =>
            LET r1 == SetCommonExpressions(entries, commonsFile, names, defs)
                r2 == SetCommonExpressions(r1.ents, r1.file, names, defs)
            IN  /\ r2.file = r1.file
                /\ r2.ents = r1.ents

-----------------------------------------------------------------------------
(* The common-expression table read back: Context.commonExpressionNames    *)
(* and Context.getCommonExpr, on a Context object that lives on while      *)
(* other Context objects of the same directory reconcile the table.        *)

\* The name -> id map that reading every line of commons.pv_it builds.
LoadedIds(file) ==
    LET lines == CommonLines(file)
        last(name) == CHOOSE i \in 1..Len(lines) :
                          /\ lines[i][1] = name
                          /\ \A j \in (i + 1)..Len(lines) : lines[j][1] # name
    IN  [name \in {lines[i][1] : i \in 1..Len(lines)} |-> lines[last(name)][2]]

\* list(context.commonExpressionNames()): the names in the order of the file.
CommonExpressionNames(file) ==
    LET lines == CommonLines(file) IN [i \in 1..Len(lines) |-> lines[i][1]]

\* Context.getCommonExpr(name) on an object whose _common_expr_ids is cache:
\* the table is read in only when the object has none.
GetCommonExpr(cache, file, ents, name) ==
    LET ids == IF cache.loaded THEN cache.ids ELSE LoadedIds(file)
    IN  IF name \in DOMAIN ids
        THEN [res |-> MakeExpression(ents, ids[name]), cache |-> Ids(ids)]
        ELSE [res |-> [ok |-> FALSE, err |-> "KeyError"], cache |-> Ids(ids)]

\* _setCommonExpressions called on the long-lived object itself.
ReconcileCommonsHere(names, defs) ==
    LET r == SetCommonExpressions(entries, commonsFile, names, defs)
    IN  /\ Range(names) \subseteq DOMAIN defs
        /\ WithinBounds(r.ents)
        /\ entries' = r.ents
        /\ commonsFile' = r.file
        /\ commonExprIds' = Ids(r.ids)
        /\ UNCHANGED <<slots, listFile, depVars, regVars, lookupVars, otherVars, runVars>>

\* list(self.commonExpressionNames()) on the long-lived object.
ReadCommonExpressionNames ==
    /\ commonExprIds' = Ids(LoadedIds(commonsFile))
    /\ UNCHANGED <<dirVars, depVars, regVars, lookupVars, otherVars, runVars>>

\* getCommonExpr(name) on the long-lived object.
GetCommonExprCall(name) ==
    /\ commonExprIds' = GetCommonExpr(commonExprIds, commonsFile, entries, name).cache
    /\ UNCHANGED <<dirVars, depVars, regVars, lookupVars, otherVars, runVars>>

\* The table reconciled by the long-lived object and by other objects of the
\* same directory, and read through the long-lived object.
NextCommons ==
    \/ \E names \in NameSeqs, defs \in Definitions : ReconcileCommons(names, defs)
    \/ \E names \in NameSeqs, defs \in Definitions : ReconcileCommonsHere(names, defs)
    \/ ReadCommonExpressionNames
    \/ \E name \in Names : GetCommonExprCall(name)

SpecCommons == Init /\ [][NextCommons]_vars

\* What getCommonExpr(name) gives for a table reconciled with names and defs.
ReadsBack(cache, r, names, defs) ==
    \A name \in Names :
        LET g == GetCommonExpr(cache, r.file, r.ents, name).res
        IN  IF name \in Range(names)
            THEN g.ok /\ g.id = StorageId(defs[name])
            ELSE ~g.ok /\ g.err = "KeyError"

\* C21: after the common table is reconciled with names and definitions, it
\* lists exactly the names, in order; get(name) gives the hash of the
\* definition of every listed name and fails with a not-found error for
\* every other name, through the object that reconciled, through an object
\* that never read the table in, and through the long-lived object; and
\* every get fails with not-found while the table file does not exist.
TableReadsBack ==
    /\ \A names \in NameSeqs, defs \in Definitions :
           ValidArgs(names, defs) =>
               LET r == SetCommonExpressions(entries, commonsFile, names, defs)
               IN  /\ CommonExpressionNames(r.file) = names
                   /\ ReadsBack(Ids(r.ids), r, names, defs)
                   /\ ReadsBack(NoIds, r, names, defs)
                   /\ ReadsBack(commonExprIds, r, names, defs)
    /\ ~commonsFile.exists =>
           \A name \in Names :
               LET g == GetCommonExpr(NoIds, commonsFile, entries, name).res
               IN  ~g.ok /\ g.err = "KeyError"

-----------------------------------------------------------------------------
(* The context registry: Context.__init__, Context.setRootContextPath and  *)
(* Context.getContext, on paths written as sequences of components (an    *)
(* absolute path starts with the component "/").                           *)

\* The directories of the file system that hold an __init__.py file: a root
\* context p with a sub-context s, and a root context of the same name p in
\* another directory.
ContextDirs ==
    {<<"/", "w", "p">>, <<"/", "w", "p", "s">>, <<"/", "v", "p">>}

\* The regular files.
Files == {<<"/", "w", "p", "f.py">>}

\* The symbolic links: /w/l points to the directory /w/p.
LinkPath == <<"/", "w", "l">>

LinkTarget == <<"/", "w", "p">>

\* The current working directory of the process.
Cwd == <<"/", "w">>

\* The directory or file a normalised path denotes, links followed.
Canon(path) ==
    IF Len(path) >= Len(LinkPath) /\ SubSeq(path, 1, Len(LinkPath)) = LinkPath
    THEN LinkTarget \o SubSeq(path, Len(LinkPath) + 1, Len(path))
    ELSE path

\* os.path.isfile
IsFile(path) == Canon(path) \in Files

\* os.path.isfile(os.path.join(path, '__init__.py'))
HasInit(path) == Canon(path) \in ContextDirs

\* os.path.normpath: "." dropped, ".." takes the component before it away,
\* textually (links are not followed).
RECURSIVE NormLoop(_, _)
NormLoop(done, rest) ==
    IF rest = <<>> THEN done
    ELSE LET comp == Head(rest)
         IN  IF comp = "." THEN NormLoop(done, Tail(rest))
             ELSE IF comp = ".."
                  THEN NormLoop(IF Len(done) > 1
                                THEN SubSeq(done, 1, Len(done) - 1) ELSE done,
                                Tail(rest))
                  ELSE NormLoop(Append(done, comp), Tail(rest))

\* os.path.abspath: the path joined to the working directory unless it is
\* absolute, then normalised.
AbsPath(path) ==
    IF path # <<>> /\ Head(path) = "/"
    THEN NormLoop(<<"/">>, Tail(path))
    ELSE NormLoop(Cwd, path)

\* os.path.abspath(os.path.join(path, '..')) on a normalised path.
Parent(path) == IF Len(path) > 1 THEN SubSeq(path, 1, Len(path) - 1) ELSE path

\* The directory after the redirects of Context.__init__: out of a __pv_it
\* directory, out of a _proofs_ directory (tested on the path as it was
\* before the first redirect), and from a file to its directory.
StartDirectory(path) ==
    LET splitpath == AbsPath(path)
        first     == CHOOSE i \in 1..Len(splitpath) :
                         /\ splitpath[i] = "__pv_it"
                         /\ \A j \in 1..(i - 1) : splitpath[j] # "__pv_it"
        path1     == IF "__pv_it" \in Range(splitpath)
                     THEN SubSeq(splitpath, 1, first - 1) ELSE splitpath
        path2     == IF splitpath[Len(splitpath)] = "_proofs_"
                     THEN Parent(path1) ELSE path1
    IN  IF IsFile(path2) THEN Parent(path2) ELSE path2

\* The climb up the tree while there is an __init__.py: the name, segment by
\* segment, and the directory the climb stops at.
RECURSIVE Climb(_, _)
Climb(remainingPath, name) ==
    IF HasInit(remainingPath) /\ Len(remainingPath) > 1
    THEN Climb(Parent(remainingPath),
               <<remainingPath[Len(remainingPath)]>> \o name)
    ELSE [remainingPath |-> remainingPath, name |-> name]

\* Context(path), with stor the paths that have a Storage: the Context
\* object made and the paths that have a Storage afterwards.
RECURSIVE Resolve(_, _)
ResolveStoringFirst(path, stor) ==
    LET dir     == StartDirectory(path)
        climbed == Climb(dir, <<>>)
        name    == climbed.name
    IN  IF name = <<>>
        THEN [ok |-> FALSE, err |-> "ContextException", stor |-> stor \cup {dir}]
        ELSE LET root == IF Len(name) > 1
                         THEN Resolve(Append(climbed.remainingPath, name[1]), stor)
                         ELSE [name |-> name, storage |-> dir, isRoot |-> TRUE,
                               stor |-> stor]
             IN  [ok |-> TRUE, name |-> name, storage |-> dir,
                  isRoot |-> Len(name) = 1,
                  rootName |-> root.name, rootStorage |-> root.storage,
                  rootIsRoot |-> root.isRoot,
                  stor |-> root.stor \cup {dir}]

ResolveOwnRoot(path, stor) ==
    LET dir     == StartDirectory(path)
        climbed == Climb(dir, <<>>)
        name    == climbed.name
    IN  IF name = <<>>
        THEN [ok |-> FALSE, err |-> "ContextException", stor |-> stor]
        ELSE [ok |-> TRUE, name |-> name, storage |-> dir,
              isRoot |-> TRUE,
              rootName |-> name, rootStorage |-> dir, rootIsRoot |-> TRUE,
              stor |-> stor \cup {dir}]

Resolve(path, stor) ==
    LET dir     == StartDirectory(path)
        climbed == Climb(dir, <<>>)
        name    == climbed.name
    IN  IF name = <<>>
        THEN [ok |-> FALSE, err |-> "ContextException", stor |-> stor]
        ELSE IF Len(name) > 1
        THEN LET root == Resolve(Append(climbed.remainingPath, name[1]), stor)
             IN  IF ~root.ok THEN root
                 ELSE [ok |-> TRUE, name |-> name, storage |-> dir,
                       isRoot |-> FALSE,
                       rootName |-> root.name, rootStorage |-> root.storage,
                       rootIsRoot |-> root.isRoot,
                       stor |-> root.stor \cup {dir}]
        ELSE [ok |-> TRUE, name |-> name, storage |-> dir,
              isRoot |-> TRUE,
              rootName |-> name, rootStorage |-> dir, rootIsRoot |-> TRUE,
              stor |-> stor \cup {dir}]

\* Context.__eq__: the two objects have the same Storage.
ContextEq(c1, c2) == c1.storage = c2.storage

\* Context.setRootContextPath(contextName, path)
SetRootContextPathOverwriting(roots, contextName, path) ==
    [ok |-> TRUE, roots |-> (contextName :> AbsPath(path)) @@ roots]

SetRootContextPath(roots, contextName, path) ==
    LET normal == AbsPath(path)
    IN  IF contextName \in DOMAIN roots /\ roots[contextName] # normal
        THEN [ok |-> FALSE, err |-> "ContextException", roots |-> roots]
        ELSE [ok |-> TRUE,
              roots |-> (contextName :> normal) @@ roots]

\* Context.getContext(contextName), the name given segment by segment.
GetContextRootOnly(roots, stor, contextName) ==
    IF contextName[1] \notin DOMAIN roots
    THEN [ok |-> FALSE, err |-> "ContextException", stor |-> stor]
    ELSE Resolve(roots[contextName[1]], stor)

GetContext(roots, stor, contextName) ==
    IF contextName[1] \notin DOMAIN roots
    THEN [ok |-> FALSE, err |-> "ContextException", stor |-> stor]
    ELSE Resolve(roots[contextName[1]] \o Tail(contextName), stor)

\* The paths given to Context(path) and to setRootContextPath: the context
\* directories written absolutely, relatively and with "." and "..", through
\* the link, a file, the storage and proofs sub-directories at several
\* depths, and directories that are no context.
Paths ==
    {<<"/", "w", "p">>, <<"p">>, <<".", "p">>, <<"/", "w", "p", "s", "..">>,
     <<"/", "w", "p", "s">>, <<"p", "s">>,
     <<"/", "w", "l">>, <<"l", "s">>,
     <<"/", "v", "p">>, <<"..", "v", "p">>,
     <<"/", "w", "p", "f.py">>,
     <<"/", "w", "p", "__pv_it">>, <<"p", "__pv_it", "h">>,
     <<"/", "w", "p", "s", "__pv_it", "h", "k">>,
     <<"/", "w", "p", "_proofs_">>, <<"p", "s", "_proofs_">>,
     <<"/", "w", "p", "s", "__pv_it", "_proofs_">>,
     <<"p", "__pv_it", "h", "_proofs_">>,
     <<"/", "w">>, <<".">>, <<"/", "w", "x">>}

\* The root names given to setRootContextPath and the full names given to
\* getContext; no path is ever registered for the root name q.
RootNames == {"p", "l"}

DottedNames ==
    {<<"p">>, <<"p", "s">>, <<"l">>, <<"l", "s">>, <<"q">>, <<"q", "s">>}

\* Context(path)
ResolveCall(path) ==
    /\ storages' = Resolve(path, storages).stor
    /\ UNCHANGED rootContextPaths
    /\ UNCHANGED <<dirVars, depVars, cacheVars, runVars, otherVars, lookupVars>>

\* Context.setRootContextPath(contextName, path)
RegisterRoot(contextName, path) ==
    /\ rootContextPaths' =
           SetRootContextPath(rootContextPaths, contextName, path).roots
    /\ UNCHANGED storages
    /\ UNCHANGED <<dirVars, depVars, cacheVars, runVars, otherVars, lookupVars>>

\* Context.getContext(contextName)
ByName(contextName) ==
    /\ storages' = GetContext(rootContextPaths, storages, contextName).stor
    /\ UNCHANGED rootContextPaths
    /\ UNCHANGED <<dirVars, depVars, cacheVars, runVars, otherVars, lookupVars>>

NextRegistry ==
    \/ \E path \in Paths : ResolveCall(path)
    \/ \E contextName \in RootNames, path \in Paths :
           RegisterRoot(contextName, path)
    \/ \E contextName \in DottedNames : ByName(contextName)

SpecRegistry == Init /\ [][NextRegistry]_vars

\* The paths resolve and byName end up resolving: the given paths and, for
\* each full name with a registered root, the root directory joined with
\* the other segments.
ResolvedArgs ==
    Paths \cup {rootContextPaths[n[1]] \o Tail(n) :
                  n \in {m \in DottedNames : m[1] \in DOMAIN rootContextPaths}}

\* C22: singleton identity: two resolve or byName calls in a process give
\* Context handles that are equal (one shared store) exactly when their
\* arguments denote the same canonical directory, whether written
\* relatively, through a link or as a dotted name, and whatever the names;
\* and no two stores are ever created for one canonical directory.
SingletonIdentity ==
    /\ \A p1 \in ResolvedArgs, p2 \in ResolvedArgs :
           LET c1 == Resolve(p1, storages)
               c2 == Resolve(p2, c1.stor)
           IN  (c1.ok /\ c2.ok) =>
                   (ContextEq(c1, c2) <=>
                        Canon(StartDirectory(p1)) = Canon(StartDirectory(p2)))
    /\ \A k1 \in storages, k2 \in storages :
           Canon(k1) = Canon(k2) => k1 = k2

\* C23: registerRoot(name, path) succeeds exactly when the name is unmapped
\* or mapped to the same normalised path; on a different path it fails with
\* a conflict error and leaves the map as it was; a success maps the name to
\* the normalised path and changes no other name; so a mapped name keeps the
\* first path registered for it whatever is registered later.
RegisterRootFirstWins ==
    \A contextName \in RootNames, path \in Paths :
        LET roots == rootContextPaths
            r     == SetRootContextPath(roots, contextName, path)
        IN  /\ r.ok <=> \/ contextName \notin DOMAIN roots
                        \/ roots[contextName] = AbsPath(path)
            /\ ~r.ok => r.err = "ContextException" /\ r.roots = roots
            /\ r.ok => /\ DOMAIN r.roots = DOMAIN roots \cup {contextName}
                       /\ r.roots[contextName] = AbsPath(path)
                       /\ \A m \in DOMAIN roots \ {contextName} :
                              r.roots[m] = roots[m]
            /\ contextName \in DOMAIN roots =>
                   r.roots[contextName] = roots[contextName]

\* Both root names are registered, to different directories, so that each
\* meets the same path again and a conflicting one.
RegisterRootFirstWinsWitness ==
    /\ DOMAIN rootContextPaths = RootNames
    /\ rootContextPaths["p"] # rootContextPaths["l"]
    /\ \E path \in Paths :
           path # rootContextPaths["p"] /\ AbsPath(path) = rootContextPaths["p"]

\* C24: resolve(path) fails with a structural error exactly when the
\* directory it starts from, after the redirects out of the storage and
\* proofs sub-directories, has no context marker; a failed resolve creates
\* no store and adds nothing to the path-to-store cache.
ResolveFailsUnmarked ==
    \A path \in Paths :
        LET r == Resolve(path, storages)
        IN  /\ ~r.ok <=> ~HasInit(StartDirectory(path))
            /\ ~r.ok => r.err = "ContextException" /\ r.stor = storages

\* Some stores exist, a resolve from here fails and another creates a store.
ResolveFailsUnmarkedWitness ==
    /\ Cardinality(storages) >= 2
    /\ \E path \in Paths : ~Resolve(path, storages).ok
    /\ \E path \in Paths : Resolve(path, storages).stor # storages

\* The context directory that owns a path inside its storage sub-directory
\* or that is the parent of its proofs sub-directory.
InStorage(path) == "__pv_it" \in Range(AbsPath(path))

IsProofsDir(path) ==
    LET abs == AbsPath(path) IN ~InStorage(path) /\ abs[Len(abs)] = "_proofs_"

OwningDirectory(path) ==
    LET abs == AbsPath(path)
    IN  IF InStorage(path)
        THEN SubSeq(abs, 1, (CHOOSE i \in 1..Len(abs) :
                                 /\ abs[i] = "__pv_it"
                                 /\ \A j \in 1..(i - 1) : abs[j] # "__pv_it") - 1)
        ELSE Parent(abs)

\* C25: resolve of any path inside the storage sub-directory of a context
\* directory, at any depth, or of its proofs sub-directory, succeeds and
\* gives a Context equal to, and named as, the Context of the owning
\* context directory.
RedirectsToOwner ==
    \A path \in Paths :
        ((InStorage(path) \/ IsProofsDir(path)) /\ HasInit(OwningDirectory(path)))
            => LET c     == Resolve(path, storages)
                   owner == Resolve(OwningDirectory(path), c.stor)
               IN  /\ c.ok
                   /\ owner.ok
                   /\ ContextEq(c, owner)
                   /\ c.name = owner.name

\* C26: every resolved Context is its own root exactly when its name has a
\* single segment (no dot); otherwise its rootContext is the Context of the
\* directory of the first segment of its name, which has a store of its
\* own, is a root itself and has a name without a dot.
RootStructure ==
    \A path \in Paths :
        LET c == Resolve(path, storages)
        IN  c.ok =>
              /\ c.isRoot <=> Len(c.name) = 1
              /\ c.isRoot => c.rootStorage = c.storage /\ c.rootName = c.name
              /\ ~c.isRoot =>
                    LET rootDirectory ==
                            SubSeq(c.storage, 1, Len(c.storage) - Len(c.name) + 1)
                        root == Resolve(rootDirectory, c.stor)
                    IN  /\ c.rootName = <<c.name[1]>>
                        /\ c.rootStorage = rootDirectory
                        /\ rootDirectory \in c.stor
                        /\ c.rootIsRoot
                        /\ root.ok /\ root.isRoot /\ root.name = c.rootName
                        /\ root.storage = c.rootStorage

\* A sub-context was resolved first: its store and the store of its root
\* exist, and the root context of the other directory has none yet.
RootStructureWitness ==
    /\ <<"/", "w", "p", "s">> \in storages
    /\ <<"/", "w", "p">> \in storages
    /\ <<"/", "v", "p">> \notin storages

\* C27: byName round trip: for every resolved Context whose root name is
\* registered to the directory of its root, byName of its name gives a
\* Context equal to it, with the same name; byName of a name whose first
\* segment is not a registered root fails and resolves nothing (no store is
\* created).
ByNameRoundTrip ==
    /\ \A path \in Paths :
           LET c == Resolve(path, storages)
           IN  ( /\ c.ok
                 /\ c.rootName[1] \in DOMAIN rootContextPaths
                 /\ rootContextPaths[c.rootName[1]] = c.rootStorage )
               => LET b == GetContext(rootContextPaths, c.stor, c.name)
                  IN  b.ok /\ ContextEq(b, c) /\ b.name = c.name
    /\ \A contextName \in DottedNames :
           contextName[1] \notin DOMAIN rootContextPaths
               => LET b == GetContext(rootContextPaths, storages, contextName)
                  IN  ~b.ok /\ b.err = "ContextException" /\ b.stor = storages

\* The root p is registered to its directory, the sub-context p.s has been
\* resolved, and the root name l is not registered.
ByNameRoundTripWitness ==
    /\ "p" \in DOMAIN rootContextPaths
    /\ rootContextPaths["p"] = <<"/", "w", "p">>
    /\ <<"/", "w", "p", "s">> \in storages
    /\ "l" \notin DOMAIN rootContextPaths

-----------------------------------------------------------------------------
(* Context._setSpecialStatements step by step: the file-level writes of one *)
(* call on the axiom ledger, a crash between two of them, and clean() run  *)
(* from another process between two of them.                               *)

\* The definitions of a step-wise call: exactly the listed names are defined.
StepDefinitions(names) == [Range(names) -> Exprs]

\* A call is in progress: it has opened the list file and not yet returned,
\* failed or been killed.
Running == call.pc \in {"name", "remove", "slot", "addref", "removals"}

\* The name the loop is at, the expression that defines it and its id.
CallName == call.names[call.i]

CallExprId == StorageId(call.defs[CallName])

\* The call reads the previous slots, decides what to remove and opens the
\* list file for writing, which empties it.
BeginCall(kind, names, defs) ==
    /\ ~Running
    /\ call' = [pc |-> "name", kind |-> kind, names |-> names, defs |-> defs,
                prev |-> PreviousDefIds(slots[kind]),
                toRemove |-> ToRemove(slots[kind], defs), i |-> 1]
    /\ listFile' = [listFile EXCEPT ![kind] = File(<<>>)]
    /\ UNCHANGED <<entries, slots, commonsFile, cleanedDuringCall>>
    /\ UNCHANGED depVars
    /\ UNCHANGED <<cacheVars, regVars, lookupVars, otherVars>>

\* The next name is written to the list file and its expression is stored;
\* an unchanged name is done, a modified one has its old reference released
\* next, an added one has its slot written next.
WriteName ==
    /\ call.pc = "name"
    /\ call.i <= Len(call.names)
    /\ listFile' = [listFile EXCEPT ![call.kind] =
                        File(listFile[call.kind].text \o CallName \o NL)]
    /\ entries' = StoreEntry(entries, call.defs[CallName])
    /\ call' = IF CallName \in DOMAIN call.prev /\ call.prev[CallName] = CallExprId
               THEN [call EXCEPT !.i = @ + 1]
               ELSE IF CallName \notin DOMAIN call.prev
                    THEN [call EXCEPT !.pc = "slot"]
                    ELSE [call EXCEPT !.pc = "remove"]
    /\ UNCHANGED <<slots, commonsFile, cleanedDuringCall>>
    /\ UNCHANGED depVars
    /\ UNCHANGED <<cacheVars, regVars, lookupVars, otherVars>>

\* storedSpecialStmt.remove(keepPath=True) of a modified name.
RemoveOld ==
    /\ call.pc = "remove"
    /\ entries' = StmtRemove(entries, slots[call.kind], CallName, TRUE).ents
    /\ call' = [call EXCEPT !.pc = "slot"]
    /\ UNCHANGED <<slots, listFile, commonsFile, cleanedDuringCall>>
    /\ UNCHANGED depVars
    /\ UNCHANGED <<cacheVars, regVars, lookupVars, otherVars>>

\* The id is written to the slot of the name.
WriteSlot ==
    /\ call.pc = "slot"
    /\ slots' = [slots EXCEPT ![call.kind] = (CallName :> CallExprId) @@ @]
    /\ call' = [call EXCEPT !.pc = "addref"]
    /\ UNCHANGED <<entries, listFile, commonsFile, cleanedDuringCall>>
    /\ UNCHANGED depVars
    /\ UNCHANGED <<cacheVars, regVars, lookupVars, otherVars>>

\* storage._addReference(expr_id): the call fails when the entry is gone.
AddSlotReferenceSkipped ==
    /\ call.pc = "addref"
    /\ call' = [call EXCEPT !.pc = "name", !.i = @ + 1]
    /\ UNCHANGED <<entries, slots, listFile, commonsFile, cleanedDuringCall>>
    /\ UNCHANGED depVars
    /\ UNCHANGED <<cacheVars, regVars, lookupVars, otherVars>>

AddSlotReference ==
    /\ call.pc = "addref"
    /\ LET r == AddReferenceResult(entries, CallExprId)
       IN  /\ WithinBounds(r.ents)
           /\ entries' = r.ents
           /\ call' = IF r.error = "none"
                      THEN [call EXCEPT !.pc = "name", !.i = @ + 1]
                      ELSE [pc |-> "failed", err |-> r.error]
    /\ UNCHANGED <<slots, listFile, commonsFile, cleanedDuringCall>>
    /\ UNCHANGED depVars
    /\ UNCHANGED <<cacheVars, regVars, lookupVars, otherVars>>

\* The loop over the names is over and the list file is closed.
EndLoop ==
    /\ call.pc = "name"
    /\ call.i > Len(call.names)
    /\ call' = IF call.toRemove = {} THEN NoCall ELSE [call EXCEPT !.pc = "removals"]
    /\ UNCHANGED <<cleanedDuringCall>>
    /\ UNCHANGED dirVars
    /\ UNCHANGED depVars
    /\ UNCHANGED <<cacheVars, regVars, lookupVars, otherVars>>

\* stmt.remove() of one statement that no longer exists.
RemoveOne(name) ==
    /\ call.pc = "removals"
    /\ name \in call.toRemove
    /\ LET r == StmtRemove(entries, slots[call.kind], name, FALSE)
       IN  /\ entries' = r.ents
           /\ slots' = [slots EXCEPT ![call.kind] = r.slots]
    /\ call' = IF call.toRemove = {name} THEN NoCall
               ELSE [call EXCEPT !.toRemove = @ \ {name}]
    /\ UNCHANGED <<listFile, commonsFile, cleanedDuringCall>>
    /\ UNCHANGED depVars
    /\ UNCHANGED <<cacheVars, regVars, lookupVars, otherVars>>

\* The process is killed between two writes of the call; the files stay as
\* they are.
Crash ==
    /\ Running
    /\ call' = [pc |-> "crashed", kind |-> call.kind, names |-> call.names,
                defs |-> call.defs]
    /\ UNCHANGED <<cleanedDuringCall>>
    /\ UNCHANGED dirVars
    /\ UNCHANGED depVars
    /\ UNCHANGED <<cacheVars, regVars, lookupVars, otherVars>>

\* Context.clean() from another process, between two calls or between two
\* writes of the call in progress.
CleanAnyTime ==
    /\ entries' = Clean(entries)
    /\ cleanedDuringCall' = (cleanedDuringCall \/ Running)
    /\ UNCHANGED <<slots, listFile, commonsFile, call>>
    /\ UNCHANGED depVars
    /\ UNCHANGED <<cacheVars, regVars, lookupVars, otherVars>>

\* One step of the call in progress.
CallStep ==
    \/ WriteName
    \/ RemoveOld
    \/ WriteSlot
    \/ AddSlotReference
    \/ EndLoop
    \/ \E name \in Names : RemoveOne(name)

\* Calls on the axiom ledger that may be killed between two writes.
NextCrash ==
    \/ \E names \in NameSeqs : \E defs \in StepDefinitions(names) :
           BeginCall("axiom", names, defs)
    \/ CallStep
    \/ Crash

SpecCrash == Init /\ [][NextCrash]_vars

\* Calls on the axiom ledger with clean() run at any time.
NextSweep ==
    \/ \E names \in NameSeqs : \E defs \in StepDefinitions(names) :
           BeginCall("axiom", names, defs)
    \/ CallStep
    \/ CleanAnyTime

SpecSweep == Init /\ [][NextSweep]_vars

\* C28: recovery by rerun: when a reconcile(kind, N, D) was killed after any
\* one of its writes, the same reconcile run again to completion leaves the
\* name list equal to N, the slot of each listed name holding the hash of
\* its definition, no slot for an unlisted name, and every reference count
\* equal to the number of slots naming the hash.
CrashRecovers ==
    call.pc = "crashed" =>
        LET r  == SetSpecialStatements(entries, slots[call.kind],
                                       call.names, call.defs)
            sl == [slots EXCEPT ![call.kind] = r.slots]
        IN  /\ NamesOf(r.file) = call.names
            /\ \A n \in Range(call.names) :
                   /\ n \in DOMAIN r.slots
                   /\ r.slots[n] = StorageId(call.defs[n])
            /\ DOMAIN r.slots \subseteq Range(call.names)
            /\ \A h \in DOMAIN r.ents : r.ents[h] = SlotsNaming(sl, commonsFile, h)

\* C29: when every reconcile runs to completion before the next call starts,
\* no state is reachable in which the name list of a kind and its per-name
\* slots disagree or a reference count differs from the number of slots
\* naming the hash.
ListAndSlotsDisagree(kind) ==
    Range(NamesOf(listFile[kind])) # DOMAIN slots[kind]

CountDiffers(h) == entries[h] # SlotsNaming(slots, commonsFile, h)

SerialReconcilesConsistent ==
    /\ \A kind \in Kinds : ~ListAndSlotsDisagree(kind)
    /\ \A h \in DOMAIN entries : ~CountDiffers(h)

\* C30: clean() run from another process between a reconcile's store of a
\* new expression and its addReference can remove the new entry, and the
\* reconcile then fails with NotFoundError, leaving a slot that names a hash
\* with no persisted entry; as long as clean() has run only between calls,
\* never during one, the hash of every slot (ledger slot or table line) has
\* a persisted entry.
SlotWithoutEntry ==
    \/ \E kind \in Kinds : \E n \in DOMAIN slots[kind] :
           slots[kind][n] \notin DOMAIN entries
    \/ \E i \in 1..Len(CommonLines(commonsFile)) :
           CommonLines(commonsFile)[i][2] \notin DOMAIN entries

SweepOnlyBetweenCalls == ~cleanedDuringCall => ~SlotWithoutEntry

\* clean() ran during a call; the call has failed with NotFoundError and has
\* left a slot naming a hash without entry.
SweepOnlyBetweenCallsWitness ==
    /\ cleanedDuringCall
    /\ call.pc = "failed"
    /\ call.err = "NotFoundError"
    /\ SlotWithoutEntry

-----------------------------------------------------------------------------
(* Context.clear: the ledgers and the table emptied, then the sweep.       *)

\* Context.clear(): _setTheorems([], {}), _setAxioms([], {}),
\* _setCommonExpressions([], {}), then clean(); the store holds no reference
\* of a displayed expression here.
Clear(ents, sl, lf, cf) ==
    LET t == SetSpecialStatements(ents, sl["theorem"], <<>>, <<>>)
        a == SetSpecialStatements(t.ents, sl["axiom"], <<>>, <<>>)
        c == SetCommonExpressions(a.ents, cf, <<>>, <<>>)
    IN  [ents        |-> Clean(c.ents),
         slots       |-> [axiom |-> a.slots, theorem |-> t.slots],
         listFile    |-> [axiom |-> a.file, theorem |-> t.file],
         commonsFile |-> c.file]

\* C31: clear() in any state reached by completed reconciles leaves the axiom
\* list, the theorem list and the common-expression table empty with no slot
\* left, and, every reference of the store being one of those slots, leaves
\* no stored expression persisted.
ClearEmptiesContext ==
    LET r == Clear(entries, slots, listFile, commonsFile)
    IN  /\ \A kind \in Kinds :
               /\ NamesOf(r.listFile[kind]) = <<>>
               /\ r.slots[kind] = <<>>
        /\ CommonLines(r.commonsFile) = <<>>
        /\ r.ents = <<>>

-----------------------------------------------------------------------------
(* Expressions stored with their sub-expressions, and resolved from their  *)
(* hash: every sub-expression hash is a key of the store with its own      *)
(* count, accounted for when the parent is first stored.                   *)

\* Expressions nested up to two levels.
TreeExprs ==
    {Var("x", 0), Op("f", Var("x", 1), 0), Op("g", Op("f", Var("x", 1), 0), 0)}

TreeDefinitions == UNION {[S -> TreeExprs] : S \in SUBSET Names}

\* The table is built from the definitions of the listed names only.
TreeDefinitionsOf(names) == [Range(names) -> TreeExprs]

RECURSIVE StoreTreeUncounted(_, _)
RECURSIVE StoreTree(_, _)

\* The sub-expressions of e stored, each with its own sub-expressions.
RECURSIVE StoreSubs(_, _, _)
StoreSubs(ents, subs, i) ==
    IF i > Len(subs) THEN ents
    ELSE StoreSubs(StoreTree(ents, subs[i]), subs, i + 1)

RECURSIVE StoreSubsUncounted(_, _, _)
StoreSubsUncounted(ents, subs, i) ==
    IF i > Len(subs) THEN ents
    ELSE StoreSubsUncounted(StoreTreeUncounted(ents, subs[i]), subs, i + 1)

\* A reference added to each sub-expression of a newly stored parent.
RECURSIVE CountSubs(_, _, _)
CountSubs(ents, subs, i) ==
    IF i > Len(subs) THEN ents
    ELSE CountSubs(AddReference(ents, StorageId(subs[i])), subs, i + 1)

\* Storing an expression: its sub-expressions are stored first (their hashes
\* make up its encoding); when the expression has no entry yet, its entry is
\* persisted with count 0 and each sub-expression gets a reference.
StoreTreeUncounted(ents, e) ==
    StoreEntry(StoreSubsUncounted(ents, e.subs, 1), e)

StoreTree(ents, e) ==
    LET withSubs == StoreSubs(ents, e.subs, 1)
    IN  IF StorageId(e) \in DOMAIN ents THEN ents
        ELSE StoreEntry(CountSubs(withSubs, e.subs, 1), e)

\* The definitions of the listed names stored, in the order of the names.
RECURSIVE StoreTrees(_, _, _, _)
StoreTrees(ents, names, defs, i) ==
    IF i > Len(names) THEN ents
    ELSE StoreTrees(StoreTree(ents, defs[names[i]]), names, defs, i + 1)

\* The hashes of the sub-expressions that the encoding stored under h names.
SubIds(h) ==
    LET e == CHOOSE x \in TreeExprs : StorageId(x) = h
    IN  {StorageId(e.subs[i]) : i \in 1..Len(e.subs)}

\* storage.makeExpression(h) succeeds: the entry of h is persisted and each
\* sub-expression hash of its encoding resolves.
RECURSIVE Resolves(_, _)
Resolves(ents, h) ==
    /\ h \in DOMAIN ents
    /\ \A g \in SubIds(h) : Resolves(ents, g)

\* store(expr) of an expression with sub-expressions.
StoreTreeCall(e) ==
    LET stored == StoreTree(entries, e)
    IN  /\ WithinBounds(stored)
        /\ entries' = stored
        /\ UNCHANGED <<slots, listFile, commonsFile>>
        /\ UNCHANGED depVars
        /\ UNCHANGED <<cacheVars, regVars, lookupVars, otherVars, runVars>>

\* Context._setAxioms with definitions that have sub-expressions.
ReconcileTrees(kind, names, defs) ==
    LET stored == StoreTrees(entries, names, defs, 1)
        r      == SetSpecialStatements(stored, slots[kind], names, defs)
    IN  /\ Range(names) \subseteq DOMAIN defs
        /\ WithinBounds(r.ents)
        /\ entries' = r.ents
        /\ slots' = [slots EXCEPT ![kind] = r.slots]
        /\ listFile' = [listFile EXCEPT ![kind] = r.file]
        /\ UNCHANGED commonsFile
        /\ UNCHANGED depVars
        /\ UNCHANGED <<cacheVars, regVars, lookupVars, otherVars, runVars>>

\* Context._setCommonExpressions with definitions that have sub-expressions.
ReconcileCommonsTrees(names, defs) ==
    LET stored == StoreTrees(entries, names, defs, 1)
        r      == SetCommonExpressions(stored, commonsFile, names, defs)
    IN  /\ Range(names) \subseteq DOMAIN defs
        /\ WithinBounds(r.ents)
        /\ entries' = r.ents
        /\ commonsFile' = r.file
        /\ UNCHANGED <<slots, listFile>>
        /\ UNCHANGED depVars
        /\ UNCHANGED <<cacheVars, regVars, lookupVars, otherVars, runVars>>

\* One writer: stores, reconciles of the axiom ledger and of the table, and
\* sweeps, each run to completion.
NextTrees ==
    \/ \E e \in TreeExprs : StoreTreeCall(e)
    \/ \E names \in NameSeqs, defs \in TreeDefinitions :
           ReconcileTrees("axiom", names, defs)
    \/ \E names \in NameSeqs : \E defs \in TreeDefinitionsOf(names) :
           ReconcileCommonsTrees(names, defs)
    \/ Sweep

SpecTrees == Init /\ [][NextTrees]_vars

\* The hashes that the ledger slots and the table lines hold.
SlotHashes ==
    UNION {{slots[kind][n] : n \in DOMAIN slots[kind]} : kind \in Kinds}
        \cup OldExprIds(commonsFile)

\* C32: no dangling sub-expressions: after any sequence of completed
\* reconciles and sweeps by one writer, every hash held in a ledger slot or
\* in a line of the common-expression table resolves (its entry and the
\* entries of all the sub-expression hashes it contains are persisted), and
\* a sweep removes no sub-expression of an entry that is still referenced.
NoDanglingSubExpressions ==
    /\ \A h \in SlotHashes : Resolves(entries, h)
    /\ \A h \in DOMAIN entries :
           entries[h] >= 1 => Resolves(Clean(entries), h)

\* A slot names the two-level expression, no slot names either of the
\* expressions inside it, and the store holds no unreferenced entry.
NoDanglingSubExpressionsWitness ==
    LET inner == Op("f", Var("x", 1), 0)
    IN  /\ StorageId(Op("g", inner, 0)) \in SlotHashes
        /\ StorageId(inner) \notin SlotHashes
        /\ StorageId(Var("x", 1)) \notin SlotHashes
        /\ Garbage(entries) = {}

-----------------------------------------------------------------------------
(* A per-name slot whose hash file is missing: the read phase of           *)
(* Context._setSpecialStatements.                                          *)

\* What a slot holds when its directory exists and expr.pv_it does not.
NoHashFile == <<"-">>

Corrupted(slotsK) == \E name \in DOMAIN slotsK : slotsK[name] = NoHashFile

\* The loop over the slot directories: open(...expr.pv_it) raises IOError
\* for a slot without hash file, turned into ContextException.
ReadPrevious(slotsK, defs) ==
    IF Corrupted(slotsK)
    THEN [ok |-> FALSE, err |-> "ContextException"]
    ELSE [ok |-> TRUE, prev |-> PreviousDefIds(slotsK),
          toRemove |-> ToRemove(slotsK, defs)]

\* The call with its read phase: the list file is opened for writing only
\* after every slot was read.
SetSpecialStatementsOpenFirst(ents, slotsK, file, names, defs) ==
    LET rd == ReadPrevious(slotsK, defs)
    IN  IF ~rd.ok
        THEN [err |-> rd.err, ents |-> ents, slots |-> slotsK, file |-> File(<<>>)]
        ELSE LET r == SetSpecialStatements(ents, slotsK, names, defs)
             IN  [err |-> "none", ents |-> r.ents, slots |-> r.slots, file |-> r.file]

SetSpecialStatementsRead(ents, slotsK, file, names, defs) ==
    LET rd == ReadPrevious(slotsK, defs)
    IN  IF ~rd.ok
        THEN [err |-> rd.err, ents |-> ents, slots |-> slotsK, file |-> file]
        ELSE LET r == SetSpecialStatements(ents, slotsK, names, defs)
             IN  [err |-> "none", ents |-> r.ents, slots |-> r.slots, file |-> r.file]

\* Context._setAxioms / Context._setTheorems on a directory that may hold a
\* slot without hash file.
ReconcileRead(kind, names, defs) ==
    LET r == SetSpecialStatementsRead(entries, slots[kind], listFile[kind],
                                      names, defs)
    IN  /\ Range(names) \subseteq DOMAIN defs
        /\ WithinBounds(r.ents)
        /\ entries' = r.ents
        /\ slots' = [slots EXCEPT ![kind] = r.slots]
        /\ listFile' = [listFile EXCEPT ![kind] = r.file]
        /\ call' = IF r.err = "none" THEN NoCall
                   ELSE [pc |-> "failed", err |-> r.err]
        /\ UNCHANGED <<commonsFile, cleanedDuringCall>>
        /\ UNCHANGED depVars
        /\ UNCHANGED <<cacheVars, regVars, lookupVars, otherVars>>

\* The hash file of a slot is lost (deleted by hand, or never written).
LoseHashFile(kind, name) ==
    /\ name \in DOMAIN slots[kind]
    /\ slots[kind][name] # NoHashFile
    /\ slots' = [slots EXCEPT ![kind][name] = NoHashFile]
    /\ UNCHANGED <<entries, listFile, commonsFile>>
    /\ UNCHANGED depVars
    /\ UNCHANGED <<cacheVars, regVars, lookupVars, otherVars, runVars>>

\* Reconciles of the axiom ledger on a directory whose hash files can be
\* lost between the calls.
NextCorrupt ==
    \/ \E names \in NameSeqs, defs \in Definitions :
           ReconcileRead("axiom", names, defs)
    \/ \E name \in Names : LoseHashFile("axiom", name)

SpecCorrupt == Init /\ [][NextCorrupt]_vars

\* C33: when a per-name slot of the kind lacks its hash file, the reconcile
\* fails with the corruption error in its read phase: the name list, every
\* slot and every reference count are as they were before the call.
CorruptSlotAborts ==
    \A kind \in Kinds, names \in NameSeqs, defs \in Definitions :
        (ValidArgs(names, defs) /\ Corrupted(slots[kind])) =>
            LET r == SetSpecialStatementsRead(entries, slots[kind],
                                              listFile[kind], names, defs)
            IN  /\ r.err = "ContextException"
                /\ r.file = listFile[kind]
                /\ r.slots = slots[kind]
                /\ r.ents = entries

\* A listed axiom has lost its hash file while another one holds a
\* referenced entry.
CorruptSlotAbortsWitness ==
    /\ Corrupted(slots["axiom"])
    /\ listFile["axiom"].exists
    /\ listFile["axiom"].text # <<>>
    /\ \E n \in DOMAIN slots["axiom"] :
           /\ slots["axiom"][n] # NoHashFile
           /\ slots["axiom"][n] \in DOMAIN entries
           /\ entries[slots["axiom"][n]] >= 1

-----------------------------------------------------------------------------
(* Two contexts, each with its own Storage and __pv_it directory: what a   *)
(* reconcile through one of them writes.                                   *)

\* The context the calls before were made on, and a second one.
Handles == {"here", "there"}

\* The directory of the first context, as one value.
ThisDir ==
    [entries |-> entries, slots |-> slots, listFile |-> listFile,
     commonsFile |-> commonsFile]

\* self._storage.referenced_dir of a handle.
DirOf(handle) == IF handle = "here" THEN ThisDir ELSE otherDir

\* _setSpecialStatements on the directory dir: the store, the slots of the
\* kind and the list file of the kind are written.
ReconcileDir(dir, kind, names, defs) ==
    LET r == SetSpecialStatements(dir.entries, dir.slots[kind], names, defs)
    IN  [dir EXCEPT !.entries = r.ents, !.slots[kind] = r.slots,
                    !.listFile[kind] = r.file]

\* _setCommonExpressions on the directory dir.
ReconcileCommonsDir(dir, names, defs) ==
    LET r == SetCommonExpressions(dir.entries, dir.commonsFile, names, defs)
    IN  [dir EXCEPT !.entries = r.ents, !.commonsFile = r.file]

\* The directory of the handle becomes dir; nothing else is written.
WriteBothDirs(handle, dir) ==
    /\ entries' = dir.entries
    /\ slots' = dir.slots
    /\ listFile' = dir.listFile
    /\ commonsFile' = dir.commonsFile
    /\ otherDir' = dir

WriteDir(handle, dir) ==
    IF handle = "here"
    THEN /\ entries' = dir.entries
         /\ slots' = dir.slots
         /\ listFile' = dir.listFile
         /\ commonsFile' = dir.commonsFile
         /\ UNCHANGED otherVars
    ELSE /\ otherDir' = dir
         /\ UNCHANGED dirVars

\* The slots of both directories stay within the bound.
DirsWithinBounds(handle, dir) ==
    LET o == IF handle = "here" THEN otherDir ELSE ThisDir
    IN  /\ WithinBounds(dir.entries)
        /\ NumSlots(dir.slots, dir.commonsFile)
               + NumSlots(o.slots, o.commonsFile) <= MaxSlots

\* context._setAxioms / context._setTheorems through a handle.
ReconcileIn(handle, kind, names, defs) ==
    LET dir == ReconcileDir(DirOf(handle), kind, names, defs)
    IN  /\ DOMAIN defs = Range(names)
        /\ DirsWithinBounds(handle, dir)
        /\ WriteDir(handle, dir)
        /\ UNCHANGED depVars
        /\ UNCHANGED <<cacheVars, regVars, lookupVars, runVars>>

\* context._setCommonExpressions through a handle.
ReconcileCommonsIn(handle, names, defs) ==
    LET dir == ReconcileCommonsDir(DirOf(handle), names, defs)
    IN  /\ DOMAIN defs = Range(names)
        /\ DirsWithinBounds(handle, dir)
        /\ WriteDir(handle, dir)
        /\ UNCHANGED depVars
        /\ UNCHANGED <<cacheVars, regVars, lookupVars, runVars>>

\* The arguments of these calls: at most one name, defined by one of two
\* expressions of different hashes.
FrameNameSeqs == {names \in NameSeqs : Len(names) <= 1}

FrameDefinitions(names) ==
    [Range(names) -> {Var("x", 0), Op("f", Var("x", 1), 0)}]

NextFrame ==
    \/ \E handle \in Handles, kind \in Kinds, names \in FrameNameSeqs :
           \E defs \in FrameDefinitions(names) :
               ReconcileIn(handle, kind, names, defs)
    \/ \E handle \in Handles, names \in FrameNameSeqs :
           \E defs \in FrameDefinitions(names) :
               ReconcileCommonsIn(handle, names, defs)

SpecFrame == Init /\ [][NextFrame]_vars

\* What a step leaves alone, seen from one directory before and after.
LedgerSame(d1, d2, kind) ==
    d1.slots[kind] = d2.slots[kind] /\ d1.listFile[kind] = d2.listFile[kind]

FrameWithin(d1, d2) ==
    /\ \A kind \in Kinds :
           ~LedgerSame(d1, d2, kind) =>
               /\ \A other \in Kinds \ {kind} : LedgerSame(d1, d2, other)
               /\ d1.commonsFile = d2.commonsFile
    /\ d1.commonsFile # d2.commonsFile =>
           \A kind \in Kinds : LedgerSame(d1, d2, kind)

-----------------------------------------------------------------------------
(* Context.default while common expressions are looked up: getCommonExpr   *)
(* sets it to the looked-up context and resets it in its finally clause;   *)
(* making the expression can look up common expressions of other contexts. *)

\* The nesting of the lookups in progress is bounded.
MaxDepth == 2

\* How makeExpression ends: with the expression, with KeyError for a name
\* that is not in the table, or with the store's error for an id it cannot
\* resolve.
Outcomes == {"ok", "KeyError", "CorruptStoreError"}

Defaults == ContextNames \cup {"None"}

\* Code outside a lookup assigns Context.default.
SetDefault(d) ==
    /\ lookup.frames = <<>>
    /\ default' = d
    /\ lookup' = NoLookup
    /\ UNCHANGED <<dirVars, depVars, cacheVars, regVars, runVars, otherVars>>

\* context.getCommonExpr(name) up to the try: the default is saved in
\* prev_context_default and set to the context.
EnterGetCommonExpr(c) ==
    /\ Len(lookup.frames) < MaxDepth
    /\ lookup' = [frames |-> Append(lookup.frames, [context |-> c, prev |-> default]),
                  last |-> lookup.last]
    /\ default' = c
    /\ UNCHANGED <<dirVars, depVars, cacheVars, regVars, runVars, otherVars>>

\* The innermost lookup leaves its try statement, with the expression or
\* with an exception.
LeaveGetCommonExprOnSuccess(outcome) ==
    LET n == Len(lookup.frames)
    IN  /\ n > 0
        /\ default' = IF outcome = "ok" THEN lookup.frames[n].prev ELSE default
        /\ lookup' = [frames |-> SubSeq(lookup.frames, 1, n - 1), last |-> outcome]
        /\ UNCHANGED <<dirVars, depVars, cacheVars, regVars, runVars, otherVars>>

LeaveGetCommonExpr(outcome) ==
    LET n == Len(lookup.frames)
    IN  /\ n > 0
        /\ default' = lookup.frames[n].prev
        /\ lookup' = [frames |-> SubSeq(lookup.frames, 1, n - 1), last |-> outcome]
        /\ UNCHANGED <<dirVars, depVars, cacheVars, regVars, runVars, otherVars>>

NextLookup ==
    \/ \E d \in Defaults : SetDefault(d)
    \/ \E c \in ContextNames : EnterGetCommonExpr(c)
    \/ \E outcome \in Outcomes : LeaveGetCommonExpr(outcome)

SpecLookup == Init /\ [][NextLookup]_vars

\* C35: getCommonExpr sets the default context to the looked-up context for
\* the time of the lookup and always resets it: when a lookup returns or
\* fails, the default is what it was when that lookup began, so that after
\* an inner lookup it is the context of the enclosing lookup again and after
\* the outermost one it is the value from before the call.
DefaultDuringLookup ==
    LET n == Len(lookup.frames)
    IN  /\ n > 0 => default = lookup.frames[n].context
        /\ \A i \in 2..n : lookup.frames[i].prev = lookup.frames[i - 1].context

DefaultRestored ==
    /\ []DefaultDuringLookup
    /\ [][Len(lookup'.frames) < Len(lookup.frames)
            => default' = lookup.frames[Len(lookup.frames)].prev]_vars

\* A failed lookup has returned with no lookup left in progress, and the
\* default is the context that was assigned before the call.
DefaultRestoredWitness ==
    /\ lookup.frames = <<>>
    /\ lookup.last = "KeyError"
    /\ default = "B"

\* C36: the record of referenced contexts of a context holds only names of
\* other contexts, never its own name, after any build, also a build in
\* which the context's own _common_ module was used; so the check for a
\* mutual reference of a committed context never returns the context itself.
RecordHoldsOtherNames ==
    \A c \in ContextNames :
        /\ c \notin ReferencedContexts(c).names
        /\ buildState[c] = "Committed" => c \notin MutualReferencedContexts(c)

\* C37: cache coherence of the common-expression table: after the table is
\* reconciled through another Context object of the directory, a Context
\* object that had read the table in before gives, for every listed name,
\* the newly reconciled hash, and fails with not-found for every name that
\* is no longer listed; it never answers from the earlier table.
LoadedHandleCoherent ==
    commonExprIds.loaded =>
        \A names \in NameSeqs, defs \in Definitions :
            ValidArgs(names, defs) =>
                ReadsBack(commonExprIds,
                          SetCommonExpressions(entries, commonsFile, names, defs),
                          names, defs)

====
